---- MODULE Spec2Model ----
(***************************************************************************)
(* Model of the store-viewer actor (src/src/lib.rs): the text/binary       *)
(* classifier, the four label handlers, and the handle_request router      *)
(* with its error-to-status mapping.                                       *)
(*                                                                         *)
(* A Rust String (URI, label name, label content) is a sequence of         *)
(* Unicode code points; a Vec<u8> is a sequence of bytes 0..255.           *)
(* into_bytes and from_utf8 convert between the two.                       *)
(***************************************************************************)
EXTENDS Integers, Sequences, FiniteSets, TLC

VARIABLES
    store,      \* the external label store: label name -> content bytes
    written,    \* history: label name -> [content, via] of the last successful write
    req,        \* the last request handed to handle_request
    stateIn,    \* the serialized actor state handed in with it
    fault,      \* which store call of that request failed (0: none)
    out,        \* what handle_request returned, the store calls it made
                \* and the match arm it took
    bytes,      \* classifier harness: the input byte sequence
    classified, \* classifier harness: has is_text_content run
    is_text     \* classifier harness: its result

vars == <<store, written, req, stateIn, fault, out, bytes, classified, is_text>>

httpVars == <<store, written, req, stateIn, fault, out>>
classifyVars == <<bytes, classified, is_text>>

-----------------------------------------------------------------------------
(* Bounds *)

\* longest run of one repeated character in a label content
MaxRun == 10
\* classifier input: free prefix length and number of repeated pad units
MaxPrefix == 3
MaxPad == 10

-----------------------------------------------------------------------------
(* Sequence helpers *)

RECURSIVE Rep(_, _)
Rep(unit, n) == IF n = 0 THEN <<>> ELSE unit \o Rep(unit, n - 1)

RECURSIVE SeqsUpTo(_, _)
SeqsUpTo(S, n) ==
    IF n = 0 THEN {<<>>}
    ELSE LET shorter == SeqsUpTo(S, n - 1)
         IN  shorter \cup {Append(s, x) : s \in shorter, x \in S}

\* str::starts_with
starts_with(s, prefix) ==
    /\ Len(s) >= Len(prefix)
    /\ SubSeq(s, 1, Len(prefix)) = prefix

\* str::strip_prefix(..).unwrap(), called only where starts_with holds
strip_prefix(s, prefix) == SubSeq(s, Len(prefix) + 1, Len(s))

-----------------------------------------------------------------------------
(* UTF-8 *)

IsCont(b) == b >= 128 /\ b <= 191

\* String::into_bytes: the UTF-8 encoding of one code point
Utf8EncodeChar(c) ==
    IF c < 128 THEN <<c>>
    ELSE IF c < 2048 THEN <<192 + (c \div 64), 128 + (c % 64)>>
    ELSE IF c < 65536 THEN
        <<224 + (c \div 4096), 128 + ((c \div 64) % 64), 128 + (c % 64)>>
    ELSE <<240 + (c \div 262144), 128 + ((c \div 4096) % 64),
           128 + ((c \div 64) % 64), 128 + (c % 64)>>

RECURSIVE into_bytes(_)
into_bytes(s) ==
    IF s = <<>> THEN <<>> ELSE Utf8EncodeChar(Head(s)) \o into_bytes(Tail(s))

\* Width of the well-formed UTF-8 sequence starting at b[i], 0 if there is none
\* (overlong forms, surrogates, code points above U+10FFFF and truncated or
\* stray continuation bytes are rejected, as std::str::from_utf8 does).
Utf8Width(b, i) ==
    LET b0 == b[i]
        n  == Len(b)
        c1 == IF i + 1 <= n THEN b[i + 1] ELSE 0
        c2 == IF i + 2 <= n THEN b[i + 2] ELSE 0
        c3 == IF i + 3 <= n THEN b[i + 3] ELSE 0
    IN  IF b0 < 128 THEN 1
        ELSE IF b0 >= 194 /\ b0 <= 223 THEN (IF IsCont(c1) THEN 2 ELSE 0)
        ELSE IF b0 = 224 THEN (IF c1 >= 160 /\ c1 <= 191 /\ IsCont(c2) THEN 3 ELSE 0)
        ELSE IF b0 = 237 THEN (IF c1 >= 128 /\ c1 <= 159 /\ IsCont(c2) THEN 3 ELSE 0)
        ELSE IF b0 >= 225 /\ b0 <= 239 THEN (IF IsCont(c1) /\ IsCont(c2) THEN 3 ELSE 0)
        ELSE IF b0 = 240 THEN
            (IF c1 >= 144 /\ c1 <= 191 /\ IsCont(c2) /\ IsCont(c3) THEN 4 ELSE 0)
        ELSE IF b0 >= 241 /\ b0 <= 243 THEN
            (IF IsCont(c1) /\ IsCont(c2) /\ IsCont(c3) THEN 4 ELSE 0)
        ELSE IF b0 = 244 THEN
            (IF c1 >= 128 /\ c1 <= 143 /\ IsCont(c2) /\ IsCont(c3) THEN 4 ELSE 0)
        ELSE 0

\* The code point of the well-formed sequence of width w starting at b[i]
Utf8CodePoint(b, i, w) ==
    IF w = 1 THEN b[i]
    ELSE IF w = 2 THEN (b[i] - 192) * 64 + (b[i + 1] - 128)
    ELSE IF w = 3 THEN
        (b[i] - 224) * 4096 + (b[i + 1] - 128) * 64 + (b[i + 2] - 128)
    ELSE (b[i] - 240) * 262144 + (b[i + 1] - 128) * 4096
         + (b[i + 2] - 128) * 64 + (b[i + 3] - 128)

RECURSIVE Utf8DecodeFrom(_, _, _)
Utf8DecodeFrom(b, i, acc) ==
    IF i > Len(b) THEN [ok |-> TRUE, chars |-> acc]
    ELSE LET w == Utf8Width(b, i)
         IN  IF w = 0 THEN [ok |-> FALSE, chars |-> <<>>]
             ELSE Utf8DecodeFrom(b, i + w, Append(acc, Utf8CodePoint(b, i, w)))

\* std::str::from_utf8 / String::from_utf8: Ok(chars) or Err
from_utf8(b) == Utf8DecodeFrom(b, 1, <<>>)

\* char::is_control: the Unicode category Cc
is_control(c) == c <= 31 \/ (c >= 127 /\ c <= 159)

\* the filter of is_text_content: control characters other than \n, \r, \t
IsCountedControl(c) == is_control(c) /\ c # 10 /\ c # 13 /\ c # 9

RECURSIVE CountIf(_, _)
CountIf(s, i) ==
    IF i > Len(s) THEN 0
    ELSE (IF IsCountedControl(s[i]) THEN 1 ELSE 0) + CountIf(s, i + 1)

\* is_text_content: s.len() is the length of the string in BYTES
is_text_content(b) ==
    IF b = <<>> THEN TRUE
    ELSE LET d == from_utf8(b)
         IN  IF d.ok THEN CountIf(d.chars, 1) < (Len(b) \div 10)
             ELSE FALSE

-----------------------------------------------------------------------------
(* Base64, standard alphabet with padding; the result is a string of ASCII  *)
(* code points.                                                             *)

Base64Char(v) ==
    IF v < 26 THEN 65 + v
    ELSE IF v < 52 THEN 97 + (v - 26)
    ELSE IF v < 62 THEN 48 + (v - 52)
    ELSE IF v = 62 THEN 43
    ELSE 47

RECURSIVE Base64From(_, _)
Base64From(b, i) ==
    LET left == Len(b) - i + 1
    IN  IF left <= 0 THEN <<>>
        ELSE IF left = 1 THEN
            <<Base64Char(b[i] \div 4), Base64Char((b[i] % 4) * 16), 61, 61>>
        ELSE IF left = 2 THEN
            <<Base64Char(b[i] \div 4),
              Base64Char((b[i] % 4) * 16 + (b[i + 1] \div 16)),
              Base64Char((b[i + 1] % 16) * 4), 61>>
        ELSE
            <<Base64Char(b[i] \div 4),
              Base64Char((b[i] % 4) * 16 + (b[i + 1] \div 16)),
              Base64Char((b[i + 1] % 16) * 4 + (b[i + 2] \div 64)),
              Base64Char(b[i + 2] % 64)>> \o Base64From(b, i + 3)

\* STANDARD.encode
base64_encode(b) == Base64From(b, 1)

-----------------------------------------------------------------------------
(* String literals of the source, as sequences of code points *)

\* '?', the separator handle_request splits the URI on
QuestionMark == 63

\* "/"
P_Root == <<47>>
\* "/app.css"
P_AppCss == <<47, 97, 112, 112, 46, 99, 115, 115>>
\* "/app.js"
P_AppJs == <<47, 97, 112, 112, 46, 106, 115>>
\* "/api/labels"
P_ApiLabels == <<47, 97, 112, 105, 47, 108, 97, 98, 101, 108, 115>>
\* "/api/labels/"
P_ApiLabelsSlash == <<47, 97, 112, 105, 47, 108, 97, 98, 101, 108, 115, 47>>
\* "[Encoding error]"
S_EncodingError ==
    <<91, 69, 110, 99, 111, 100, 105, 110, 103, 32, 101, 114, 114, 111, 114, 93>>

-----------------------------------------------------------------------------
(* Values *)

\* Option<T>
None == [some |-> FALSE]
Some(v) == [some |-> TRUE, v |-> v]

\* an error message: a literal text followed by an interpolated string
Msg(text, arg) == [text |-> text, arg |-> arg]

\* the opaque message of a failed store call
StoreError == Msg("store error", <<>>)

\* struct StoreViewerState
StoreViewerState(store_id, server_id) ==
    [store_id |-> store_id, server_id |-> server_id]

\* serde_json::to_vec(&state): the compact serialization of the state
SerializeState(s) ==
    [form |-> "compact", store_id |-> s.store_id, server_id |-> s.server_id]

\* serde_json::from_slice::<StoreViewerState>: any well-formed JSON text of
\* the record deserializes (compact or with insignificant whitespace);
\* anything else is an error
DeserializeState(blob) ==
    IF blob.form \in {"compact", "pretty"}
    THEN [ok |-> TRUE, v |-> StoreViewerState(blob.store_id, blob.server_id)]
    ELSE [ok |-> FALSE, v |-> StoreViewerState("", 0)]

\* JSON values of a request body
JString(s) == [t |-> "string", s |-> s]
JNumber == [t |-> "number", s |-> <<>>]

\* request bodies: absent, bytes that are not JSON, or a JSON object
NoBody == [kind |-> "none"]
GarbageBody == [kind |-> "garbage"]
ObjectBody(f) == [kind |-> "object", fields |-> f]

HasString(body, field) ==
    /\ body.kind = "object"
    /\ field \in DOMAIN body.fields
    /\ body.fields[field].t = "string"

\* serde_json::from_slice::<CreateLabelRequest>: name and content must both
\* be present and be strings; other fields are ignored
ParseCreateLabelRequest(body) ==
    IF HasString(body, "name") /\ HasString(body, "content")
    THEN [ok |-> TRUE, name |-> body.fields["name"].s,
          content |-> body.fields["content"].s]
    ELSE [ok |-> FALSE, name |-> <<>>, content |-> <<>>]

\* serde_json::from_slice::<UpdateLabelRequest>: content must be a string
ParseUpdateLabelRequest(body) ==
    IF HasString(body, "content")
    THEN [ok |-> TRUE, content |-> body.fields["content"].s]
    ELSE [ok |-> FALSE, content |-> <<>>]

-----------------------------------------------------------------------------
(* Responses *)

\* json_response
json_response(status, body) ==
    [status |-> status, content_type |-> "application/json", body |-> body]

\* error_response: the message is interpolated, unescaped, into {"error":"..."}
error_response(status, message) ==
    json_response(status, [kind |-> "error", message |-> message])

serve_index_html ==
    [status |-> 200, content_type |-> "text/html",
     body |-> [kind |-> "asset", file |-> "index.html"]]

serve_app_css ==
    [status |-> 200, content_type |-> "text/css",
     body |-> [kind |-> "asset", file |-> "app.css"]]

serve_app_js ==
    [status |-> 200, content_type |-> "application/javascript",
     body |-> [kind |-> "asset", file |-> "app.js"]]

\* the fallback arm of handle_request
not_found_response ==
    [status |-> 404, content_type |-> "text/plain",
     body |-> [kind |-> "plain", text |-> "Not Found"]]

\* {"success":true}
SuccessBody == [kind |-> "success"]

NoResponse == [status |-> 0, content_type |-> "", body |-> [kind |-> "none"]]

-----------------------------------------------------------------------------
(* Handlers.  A handler result is Result<HttpResponse, String> together     *)
(* with the store as the handler left it and the store calls it made.       *)
(* flt is the index of the store call of this request that fails (0: none). *)

HOk(resp, st, cs) ==
    [ok |-> TRUE, resp |-> resp, err |-> Msg("", <<>>), store |-> st, calls |-> cs]
HErr(msg, st, cs) ==
    [ok |-> FALSE, resp |-> NoResponse, err |-> msg, store |-> st, calls |-> cs]

StoreCall(op, store_id, label, ok) ==
    [op |-> op, store_id |-> store_id, label |-> label, ok |-> ok]

\* store::store_at_label: create the label or repoint it
StoreAtLabel(st, label, content) ==
    [l \in DOMAIN st \cup {label} |-> IF l = label THEN content ELSE st[l]]

handle_list_labels(state, st, flt) ==
    LET c1 == StoreCall("list_labels", state.store_id, <<>>, flt # 1)
    IN  IF ~c1.ok THEN HErr(StoreError, st, <<c1>>)
        ELSE HOk(json_response(200, [kind |-> "labels", labels |-> DOMAIN st]),
                 st, <<c1>>)

handle_get_label(state, label_name, st, flt) ==
    LET c1 == StoreCall("get_by_label", state.store_id, label_name, flt # 1)
        c2 == StoreCall("get", state.store_id, label_name, flt # 2)
    IN  IF ~c1.ok THEN HErr(StoreError, st, <<c1>>)
        ELSE IF label_name \notin DOMAIN st
        THEN HErr(Msg("Label not found: ", label_name), st, <<c1>>)
        ELSE IF ~c2.ok THEN HErr(StoreError, st, <<c1, c2>>)
        ELSE LET content_bytes == st[label_name]
                 text == is_text_content(content_bytes)
                 decoded == from_utf8(content_bytes)
                 content_str ==
                     IF text
                     THEN (IF decoded.ok THEN decoded.chars ELSE S_EncodingError)
                     ELSE base64_encode(content_bytes)
             IN  HOk(json_response(200,
                        [kind |-> "view", name |-> label_name,
                         content |-> content_str, is_text |-> text,
                         size_bytes |-> Len(content_bytes)]),
                     st, <<c1, c2>>)

\* handle_create_label without the check of the name
handle_create_label_unvalidated(state, request, st, flt) ==
    LET create_req == ParseCreateLabelRequest(request.body)
        c1 == StoreCall("store_at_label", state.store_id, create_req.name, flt # 1)
    IN  IF request.body.kind = "none"
        THEN HErr(Msg("Request body is required", <<>>), st, <<>>)
        ELSE IF ~create_req.ok THEN HErr(Msg("Invalid JSON: ", <<>>), st, <<>>)
        ELSE IF ~c1.ok THEN HErr(StoreError, st, <<c1>>)
        ELSE HOk(json_response(200, SuccessBody),
                 StoreAtLabel(st, create_req.name, into_bytes(create_req.content)),
                 <<c1>>)

handle_create_label(state, request, st, flt) ==
    LET create_req == ParseCreateLabelRequest(request.body)
        c1 == StoreCall("store_at_label", state.store_id, create_req.name, flt # 1)
    IN  IF request.body.kind = "none"
        THEN HErr(Msg("Request body is required", <<>>), st, <<>>)
        ELSE IF ~create_req.ok THEN HErr(Msg("Invalid JSON: ", <<>>), st, <<>>)
        ELSE IF create_req.name = <<>>
        THEN HOk(error_response(400, Msg("Label name cannot be empty", <<>>)),
                 st, <<>>)
        ELSE IF ~c1.ok THEN HErr(StoreError, st, <<c1>>)
        ELSE HOk(json_response(200, SuccessBody),
                 StoreAtLabel(st, create_req.name, into_bytes(create_req.content)),
                 <<c1>>)

\* handle_update_label that answers success without storing the content
handle_update_label_dropped(state, label_name, request, st, flt) ==
    LET update_req == ParseUpdateLabelRequest(request.body)
        c1 == StoreCall("store_at_label", state.store_id, label_name, flt # 1)
    IN  IF request.body.kind = "none"
        THEN HErr(Msg("Request body is required", <<>>), st, <<>>)
        ELSE IF ~update_req.ok THEN HErr(Msg("Invalid JSON: ", <<>>), st, <<>>)
        ELSE IF ~c1.ok THEN HErr(StoreError, st, <<c1>>)
        ELSE HOk(json_response(200, SuccessBody), st, <<c1>>)

handle_update_label(state, label_name, request, st, flt) ==
    LET update_req == ParseUpdateLabelRequest(request.body)
        c1 == StoreCall("store_at_label", state.store_id, label_name, flt # 1)
    IN  IF request.body.kind = "none"
        THEN HErr(Msg("Request body is required", <<>>), st, <<>>)
        ELSE IF ~update_req.ok THEN HErr(Msg("Invalid JSON: ", <<>>), st, <<>>)
        ELSE IF ~c1.ok THEN HErr(StoreError, st, <<c1>>)
        ELSE HOk(json_response(200, SuccessBody),
                 StoreAtLabel(st, label_name, into_bytes(update_req.content)),
                 <<c1>>)

-----------------------------------------------------------------------------
(* The router *)

RECURSIVE TakeUntil(_, _)
TakeUntil(s, ch) ==
    IF s = <<>> \/ Head(s) = ch THEN <<>>
    ELSE <<Head(s)>> \o TakeUntil(Tail(s), ch)

\* a router that matches on the whole URI, query string included
path_of_whole_uri(uri) == uri

\* req.uri.split('?').next(): the URI up to the first '?'
path_of(uri) == TakeUntil(uri, QuestionMark)

\* the match of handle_request, arms tried in source order
Route(method, path) ==
    IF method = "GET" /\ path = P_Root THEN "index_html"
    ELSE IF method = "GET" /\ path = P_AppCss THEN "app_css"
    ELSE IF method = "GET" /\ path = P_AppJs THEN "app_js"
    ELSE IF method = "GET" /\ path = P_ApiLabels THEN "list_labels"
    ELSE IF method = "POST" /\ path = P_ApiLabels THEN "create_label"
    ELSE IF method = "GET" /\ starts_with(path, P_ApiLabelsSlash) THEN "get_label"
    ELSE IF method = "PUT" /\ starts_with(path, P_ApiLabelsSlash) THEN "update_label"
    ELSE "not_found"

\* Err arms of the match: the status each route gives a handler error
ListLabelsErrorAsNotFound(e) == error_response(404, e)
ListLabelsError(e) == error_response(500, e)

CreateLabelError(e) == error_response(500, e)

GetLabelErrorAsServerError(e) == error_response(500, e)
GetLabelError(e) == error_response(404, e)

UpdateLabelError(e) == error_response(500, e)

\* the response of a route: the handler's, or the route's error response
Respond(h, onError) ==
    IF h.ok THEN h ELSE HOk(onError, h.store, h.calls)

\* handing back a fresh serialization of the deserialized state
ReturnedStateReserialized(state_bytes, viewer_state) ==
    Some(SerializeState(viewer_state))

\* Ok((Some(state_bytes), ..)): the bytes that came in
ReturnedState(state_bytes, viewer_state) == Some(state_bytes)

RequestError(msg, st) ==
    [ok |-> FALSE, state |-> None, resp |-> NoResponse, err |-> msg,
     store |-> st, calls |-> <<>>, route |-> "state_error"]

\* the arm handle_request takes for an input, "state_error" if it returns
\* before routing
ArmOf(state, request) ==
    IF ~state.some \/ ~DeserializeState(state.v).ok THEN "state_error"
    ELSE Route(request.method, path_of(request.uri))

handle_request(state, request, st, flt) ==
    IF ~state.some THEN RequestError(Msg("State not found", <<>>), st)
    ELSE IF ~DeserializeState(state.v).ok
    THEN RequestError(Msg("Failed to deserialize state: ", <<>>), st)
    ELSE
        LET state_bytes == state.v
            viewer_state == DeserializeState(state_bytes).v
            path == path_of(request.uri)
            arm == Route(request.method, path)
            label_name == strip_prefix(path, P_ApiLabelsSlash)
            h == CASE arm = "index_html" -> HOk(serve_index_html, st, <<>>)
                   [] arm = "app_css" -> HOk(serve_app_css, st, <<>>)
                   [] arm = "app_js" -> HOk(serve_app_js, st, <<>>)
                   [] arm = "list_labels" ->
                        LET r == handle_list_labels(viewer_state, st, flt)
                        IN  Respond(r, ListLabelsError(r.err))
                   [] arm = "create_label" ->
                        LET r == handle_create_label(viewer_state, request, st, flt)
                        IN  Respond(r, CreateLabelError(r.err))
                   [] arm = "get_label" ->
                        LET r == handle_get_label(viewer_state, label_name, st, flt)
                        IN  Respond(r, GetLabelError(r.err))
                   [] arm = "update_label" ->
                        LET r == handle_update_label(viewer_state, label_name,
                                                     request, st, flt)
                        IN  Respond(r, UpdateLabelError(r.err))
                   [] OTHER -> HOk(not_found_response, st, <<>>)
        IN  [ok |-> TRUE, state |-> ReturnedState(state_bytes, viewer_state),
             resp |-> h.resp, err |-> Msg("", <<>>),
             store |-> h.store, calls |-> h.calls, route |-> arm]

-----------------------------------------------------------------------------
(* Inputs *)

\* let store_id = "store-viewer"; the server id is whatever create_server gave
InitialState == StoreViewerState("store-viewer", 1)

StateCompact == Some(SerializeState(InitialState))
StatePretty ==
    Some([form |-> "pretty", store_id |-> "store-viewer", server_id |-> 1])
StateGarbage == Some([form |-> "garbage", store_id |-> "", server_id |-> 0])

\* label contents: a short ASCII text, a long one, and a multi-byte one
Contents ==
    {Rep(<<97>>, MaxRun \div 2), Rep(<<97>>, MaxRun), Rep(<<233>>, MaxRun \div 2)}

\* label names in request bodies: "" and "a"
Names == {<<>>, <<97>>}

Bodies ==
    {NoBody, GarbageBody,
     ObjectBody([f \in {"name"} |-> JString(<<97>>)]),
     ObjectBody([f \in {"name", "content"} |->
                    IF f = "name" THEN JString(<<97>>) ELSE JNumber])}
    \cup {ObjectBody([f \in {"content"} |-> JString(c)]) : c \in Contents}
    \cup {ObjectBody([f \in {"name", "content"} |->
                        IF f = "name" THEN JString(n) ELSE JString(c)]) :
            n \in Names, c \in Contents}

\* "", "/api", "/api/labelsa", "/api/labels/a", "/api/labels/a/a"
Paths ==
    {<<>>, P_Root, P_AppCss, P_AppJs, P_ApiLabels, P_ApiLabelsSlash,
     <<47, 97, 112, 105>>, P_ApiLabels \o <<97>>,
     P_ApiLabelsSlash \o <<97>>, P_ApiLabelsSlash \o <<97, 47, 97>>}

\* "" and "?a?a"
Queries == {<<>>, <<63, 97, 63, 97>>}

Request(method, uri, body) == [method |-> method, uri |-> uri, body |-> body]

Input(state, request, flt) == [state |-> state, req |-> request, fault |-> flt]

\* requests to the label API, with every body and every store failure
ApiInputs ==
    LET label_uris == {P_ApiLabelsSlash, P_ApiLabelsSlash \o <<97>>}
    IN  {Input(StateCompact, Request("GET", u, NoBody), f) :
            u \in label_uris \cup {P_ApiLabels}, f \in 0..2}
        \cup {Input(StateCompact, Request("POST", P_ApiLabels, b), f) :
                b \in Bodies, f \in 0..1}
        \cup {Input(StateCompact, Request("PUT", u, b), f) :
                u \in label_uris, b \in Bodies, f \in 0..1}

\* every method on every path, with and without a query string, and
\* requests that carry a body to paths that take none
RoutingInputs ==
    {Input(StateCompact, Request(m, p \o q, NoBody), 0) :
        m \in {"GET", "POST", "PUT", "DELETE"}, p \in Paths, q \in Queries}
    \cup {Input(StateCompact, Request(m, p, b), 1) :
            m \in {"POST", "DELETE"},
            p \in {P_Root, P_ApiLabelsSlash \o <<97>>, P_ApiLabels \o <<97>>},
            b \in {GarbageBody,
                   ObjectBody([f \in {"name", "content"} |->
                                JString(IF f = "name" THEN <<97>> ELSE Rep(<<97>>, MaxRun))])}}

\* requests arriving with an absent, unreadable or reformatted actor state
StateInputs ==
    {Input(s, Request(m, u, b), 0) :
        s \in {None, StateGarbage, StatePretty},
        m \in {"GET", "PUT"},
        u \in {P_Root, P_ApiLabelsSlash \o <<97>>},
        b \in {ObjectBody([f \in {"content"} |-> JString(Rep(<<97>>, MaxRun))])}}

Inputs == ApiInputs \cup RoutingInputs \cup StateInputs

-----------------------------------------------------------------------------
(* Actions: one call of handle_request, by the arm it takes *)

EmptyStore == [l \in {} |-> <<>>]

\* history of the last successful write of each label
RecordWrite(w, r, request) ==
    IF /\ r.ok
       /\ r.route \in {"create_label", "update_label"}
       /\ r.calls # <<>>
       /\ r.calls[Len(r.calls)].op = "store_at_label"
       /\ r.calls[Len(r.calls)].ok
    THEN StoreAtLabel(w, r.calls[Len(r.calls)].label,
                      [content |-> request.body.fields["content"].s,
                       via |-> request.method])
    ELSE w

\* the inputs that take each arm
Arms ==
    {"index_html", "app_css", "app_js", "list_labels", "create_label",
     "get_label", "update_label", "not_found", "state_error"}

InputsByArm == [arm \in Arms |-> {i \in Inputs : ArmOf(i.state, i.req) = arm}]

\* one call of handle_request on the input i
Handle(i) ==
    /\ out' = handle_request(i.state, i.req, store, i.fault)
    /\ store' = out'.store
    /\ written' = RecordWrite(written, out', i.req)
    /\ req' = i.req
    /\ stateIn' = i.state
    /\ fault' = i.fault

ServeIndexHtml ==
    /\ \E i \in InputsByArm["index_html"] : Handle(i)
    /\ UNCHANGED classifyVars

ServeAppCss ==
    /\ \E i \in InputsByArm["app_css"] : Handle(i)
    /\ UNCHANGED classifyVars

ServeAppJs ==
    /\ \E i \in InputsByArm["app_js"] : Handle(i)
    /\ UNCHANGED classifyVars

ListLabels ==
    /\ \E i \in InputsByArm["list_labels"] : Handle(i)
    /\ UNCHANGED classifyVars

CreateLabel ==
    /\ \E i \in InputsByArm["create_label"] : Handle(i)
    /\ UNCHANGED classifyVars

GetLabel ==
    /\ \E i \in InputsByArm["get_label"] : Handle(i)
    /\ UNCHANGED classifyVars

UpdateLabel ==
    /\ \E i \in InputsByArm["update_label"] : Handle(i)
    /\ UNCHANGED classifyVars

NotFound ==
    /\ \E i \in InputsByArm["not_found"] : Handle(i)
    /\ UNCHANGED classifyVars

StateError ==
    /\ \E i \in InputsByArm["state_error"] : Handle(i)
    /\ UNCHANGED classifyVars


NoRequest == Request("", <<>>, NoBody)
NoOutput ==
    [ok |-> TRUE, state |-> None, resp |-> NoResponse, err |-> Msg("", <<>>),
     store |-> EmptyStore, calls |-> <<>>, route |-> "none"]

Init ==
    /\ store = EmptyStore
    /\ written = EmptyStore
    /\ req = NoRequest
    /\ stateIn = StateCompact
    /\ fault = 0
    /\ out = NoOutput
    /\ bytes = <<>>
    /\ classified = FALSE
    /\ is_text = FALSE

Next ==
    \/ ServeIndexHtml
    \/ ServeAppCss
    \/ ServeAppJs
    \/ ListLabels
    \/ CreateLabel
    \/ GetLabel
    \/ UpdateLabel
    \/ NotFound
    \/ StateError

Spec == Init /\ [][Next]_vars

-----------------------------------------------------------------------------
(* The classifier on its own: is_text_content applied to a byte sequence *)

\* 'a', '\n', U+0001, the two bytes of U+00E9 and the two bytes of U+0085
ClassifierBytes == {97, 10, 1, 195, 169, 194, 133}

\* "a", U+00E9, U+0001, U+20AC
PadUnits == {<<97>>, <<195, 169>>, <<1>>, <<226, 130, 172>>}

ClassifierInputs ==
    {p \o Rep(u, n) :
        p \in SeqsUpTo(ClassifierBytes, MaxPrefix), u \in PadUnits, n \in 0..MaxPad}

InitClassify ==
    /\ store = EmptyStore
    /\ written = EmptyStore
    /\ req = NoRequest
    /\ stateIn = StateCompact
    /\ fault = 0
    /\ out = NoOutput
    /\ bytes \in ClassifierInputs
    /\ classified = FALSE
    /\ is_text = FALSE

Classify ==
    /\ ~classified
    /\ classified' = TRUE
    /\ is_text' = is_text_content(bytes)
    /\ UNCHANGED <<bytes, httpVars>>

NextClassify == Classify

SpecClassify == InitClassify /\ [][NextClassify]_vars

-----------------------------------------------------------------------------
(* Vocabulary of the properties *)

\* the URI up to, not including, its first '?'
PathBeforeQuery(uri) ==
    LET marks == {k \in 1..Len(uri) : uri[k] = QuestionMark}
    IN  IF marks = {} THEN uri
        ELSE SubSeq(uri, 1, (CHOOSE k \in marks : \A j \in marks : k <= j) - 1)

\* a request has been handled
Handled == out.route # "none"

\* the state handed in is present and is the JSON of a StoreViewerState
ReadableState == stateIn.some /\ stateIn.v.form \in {"compact", "pretty"}

\* handle_request got a state it could read, so the request was routed
Routed == Handled /\ ReadableState

IsLabelPath(path) ==
    /\ Len(path) >= Len(P_ApiLabelsSlash)
    /\ \A k \in 1..Len(P_ApiLabelsSlash) : path[k] = P_ApiLabelsSlash[k]

\* the <rest> of /api/labels/<rest>
LabelOf(path) ==
    [k \in 1..(Len(path) - Len(P_ApiLabelsSlash)) |-> path[k + Len(P_ApiLabelsSlash)]]

IsGetLabel(r) == r.method = "GET" /\ IsLabelPath(PathBeforeQuery(r.uri))
IsPutLabel(r) == r.method = "PUT" /\ IsLabelPath(PathBeforeQuery(r.uri))
IsPostLabels(r) == r.method = "POST" /\ PathBeforeQuery(r.uri) = P_ApiLabels
IsListLabels(r) == r.method = "GET" /\ PathBeforeQuery(r.uri) = P_ApiLabels

BodyHasString(r, field) ==
    /\ r.body.kind = "object"
    /\ field \in DOMAIN r.body.fields
    /\ r.body.fields[field].t = "string"

WellFormedCreate(r) == BodyHasString(r, "name") /\ BodyHasString(r, "content")
WellFormedUpdate(r) == BodyHasString(r, "content")

Wrote(cs) == \E k \in 1..Len(cs) : cs[k].op = "store_at_label"

IsErrorJson(resp) ==
    /\ resp.content_type = "application/json"
    /\ resp.body.kind = "error"

HasControl(s) == \E k \in 1..Len(s) : is_control(s[k])

\* the view of a label holding the text c, per the classification of its bytes
ViewOf(n, c) ==
    LET b == into_bytes(c)
    IN  [kind |-> "view", name |-> n,
         content |-> IF is_text_content(b) THEN c ELSE base64_encode(b),
         is_text |-> is_text_content(b), size_bytes |-> Len(b)]

\* the classifier rule with the string measured in characters
ClassifierRule(b) ==
    IF b = <<>> THEN TRUE
    ELSE IF ~from_utf8(b).ok THEN FALSE
    ELSE LET chars == from_utf8(b).chars
             controls == Cardinality({k \in 1..Len(chars) :
                            is_control(chars[k]) /\ chars[k] \notin {10, 13, 9}})
         IN  controls < (Len(chars) \div 10)

\* the routes of the service, on the path before the query string
RouteTable(method, path) ==
    CASE method = "GET" /\ path = P_Root -> "index_html"
      [] method = "GET" /\ path = P_AppCss -> "app_css"
      [] method = "GET" /\ path = P_AppJs -> "app_js"
      [] method = "GET" /\ path = P_ApiLabels -> "list_labels"
      [] method = "POST" /\ path = P_ApiLabels -> "create_label"
      [] method = "GET" /\ IsLabelPath(path) -> "get_label"
      [] method = "PUT" /\ IsLabelPath(path) -> "update_label"
      [] OTHER -> "not_found"

-----------------------------------------------------------------------------
(* Properties *)

\* C1: after a successful POST /api/labels of {name: n, content: c}, n not
\* empty and c free of control characters, a GET /api/labels/n with no write
\* to n in between answers 200 with {name: n, content: c, is_text: true,
\* size_bytes: the UTF-8 length of c}.
C1_CreateThenRead ==
    \A n \in DOMAIN written :
        ( /\ Routed /\ fault = 0
          /\ IsGetLabel(req) /\ LabelOf(PathBeforeQuery(req.uri)) = n
          /\ n # <<>>
          /\ written[n].via = "POST"
          /\ ~HasControl(written[n].content) )
        => out.resp = json_response(200,
                        [kind |-> "view", name |-> n,
                         content |-> written[n].content, is_text |-> TRUE,
                         size_bytes |-> Len(into_bytes(written[n].content))])

\* C2: is_text_content(b) is true for empty b, false for b that is not valid
\* UTF-8, and otherwise true exactly when the number of control characters
\* other than \n, \r, \t is below floor(number of characters / 10).
C2_ClassifierByCharacters == classified => (is_text = ClassifierRule(bytes))

\* C3: a POST /api/labels or PUT /api/labels/{name} whose body is missing or
\* is not JSON of the expected shape is answered 400 with an error body and
\* writes nothing to the store.
C3_BadBodyIs400 ==
    ( /\ Routed
      /\ \/ IsPostLabels(req) /\ ~WellFormedCreate(req)
         \/ IsPutLabel(req) /\ ~WellFormedUpdate(req) )
    => /\ out.resp.status = 400
       /\ IsErrorJson(out.resp)
       /\ ~Wrote(out.calls)

\* C4: after a successful PUT /api/labels/n of {content: c2}, a GET
\* /api/labels/n with no write to n in between answers 200 with the view of
\* c2 (content, is_text and size_bytes of c2); a successful PUT leaves the
\* label holding the bytes of c2, whether or not the label existed before.
C4_UpdateThenRead ==
    [][ /\ \A n \in DOMAIN written :
              ( /\ Routed' /\ fault' = 0
                /\ IsGetLabel(req') /\ LabelOf(PathBeforeQuery(req'.uri)) = n
                /\ written[n].via = "PUT" )
              => out'.resp = json_response(200, ViewOf(n, written[n].content))
        /\ ( /\ Routed' /\ fault' = 0
             /\ IsPutLabel(req') /\ WellFormedUpdate(req') )
           => LET n == LabelOf(PathBeforeQuery(req'.uri))
              IN  /\ out'.resp = json_response(200, SuccessBody)
                  /\ n \in DOMAIN store'
                  /\ store'[n] = into_bytes(req'.body.fields["content"].s)
                  /\ \A l \in DOMAIN store : l \in DOMAIN store'
                  /\ \A l \in DOMAIN store' \ {n} :
                        l \in DOMAIN store /\ store'[l] = store[l]
      ]_vars

C4_Witness ==
    /\ Routed /\ fault = 0 /\ IsGetLabel(req)
    /\ LabelOf(PathBeforeQuery(req.uri)) \in DOMAIN written
    /\ written[LabelOf(PathBeforeQuery(req.uri))].via = "PUT"
    /\ out.resp.status = 200
    /\ out.resp.body.kind = "view"
    /\ out.resp.body.is_text

\* C5: a POST /api/labels with a well-formed body whose name is empty is
\* answered 400 {"error":"Label name cannot be empty"} and leaves the store
\* as it was.
C5_EmptyNameRejected ==
    [][ ( /\ Routed'
          /\ IsPostLabels(req') /\ WellFormedCreate(req')
          /\ req'.body.fields["name"].s = <<>> )
        => /\ out'.resp = json_response(400,
                [kind |-> "error", message |-> Msg("Label name cannot be empty", <<>>)])
           /\ ~Wrote(out'.calls)
           /\ store' = store
      ]_vars

C5_Witness ==
    /\ Routed /\ IsPostLabels(req) /\ WellFormedCreate(req)
    /\ req.body.fields["name"].s = <<>>
    /\ out.resp.status = 400
    /\ store # EmptyStore

\* C6: every failure of GET /api/labels/{name} is answered 404 with an error
\* body: "Label not found: <name>" when the label resolves to none, the
\* store's message when the resolve or the read call fails.
C6_GetFailuresAre404 ==
    ( Routed /\ IsGetLabel(req) )
    => LET n == LabelOf(PathBeforeQuery(req.uri))
       IN  /\ out.resp.status \in {200, 404}
           /\ out.resp.status = 404 => IsErrorJson(out.resp)
           /\ fault = 1 => out.resp = error_response(404, StoreError)
           /\ (fault # 1 /\ n \notin DOMAIN store)
                => out.resp = error_response(404, Msg("Label not found: ", n))
           /\ (fault = 2 /\ n \in DOMAIN store)
                => out.resp = error_response(404, StoreError)
           /\ (fault = 0 /\ n \in DOMAIN store) => out.resp.status = 200

C6_Witness ==
    /\ Routed /\ IsGetLabel(req) /\ fault = 2
    /\ LabelOf(PathBeforeQuery(req.uri)) \in DOMAIN store
    /\ out.resp.status = 404
    /\ out.resp.body.message = StoreError

\* C7: a store error during GET /api/labels, POST /api/labels or PUT
\* /api/labels/{name} is answered 500 with an error body carrying the
\* store's message, after a single store call that is not repeated.
C7_StoreErrorsAre500 ==
    ( /\ Routed /\ fault = 1
      /\ \/ IsListLabels(req)
         \/ /\ IsPostLabels(req) /\ WellFormedCreate(req)
            /\ req.body.fields["name"].s # <<>>
         \/ IsPutLabel(req) /\ WellFormedUpdate(req) )
    => /\ out.resp = error_response(500, StoreError)
       /\ Len(out.calls) = 1
       /\ ~out.calls[1].ok

C7_Witness ==
    /\ Routed /\ fault = 1 /\ IsListLabels(req)
    /\ out.resp.status = 500
    /\ store # EmptyStore

\* C8: a request whose method and path (the URI up to the first '?') is none
\* of the seven routes is answered 404 text/plain "Not Found" without a store
\* call, and the query string never changes the route taken.
C8_RoutingFallback ==
    Routed =>
        LET expected == RouteTable(req.method, PathBeforeQuery(req.uri))
        IN  /\ out.route = expected
            /\ expected = "not_found"
                 => /\ out.resp = [status |-> 404, content_type |-> "text/plain",
                                   body |-> [kind |-> "plain", text |-> "Not Found"]]
                    /\ out.calls = <<>>
            /\ expected # "not_found" => out.resp.body.kind # "plain"

C8_Witness ==
    /\ Routed /\ req.method = "POST"
    /\ IsLabelPath(PathBeforeQuery(req.uri))
    /\ Len(req.uri) > Len(PathBeforeQuery(req.uri))
    /\ out.resp.status = 404
    /\ out.resp.content_type = "text/plain"

\* C9: whenever handle_request produces a response, the state it returns is
\* the state it was given; with the state absent or undeserializable it
\* returns an error, no response, and makes no store call.
C9_StatePassThrough ==
    Handled =>
        /\ out.ok => out.state = stateIn
        /\ ReadableState => out.ok /\ out.resp # NoResponse
        /\ ~ReadableState => ~out.ok /\ out.resp = NoResponse /\ out.calls = <<>>

C9_Witness ==
    /\ out.ok
    /\ stateIn = StatePretty
    /\ out.state = StatePretty
    /\ out.resp.status = 200
    /\ Wrote(out.calls)

\* C10: no label with the empty name is ever written.
C10_NoEmptyLabel == <<>> \notin DOMAIN store

====
